---- MODULE Spec2Model ----
(***************************************************************************)
(* Joggl (src/index.js): a one-shot command-line run that fetches a Toggl  *)
(* time report, merges the entries into work items, checks every item      *)
(* against Jira and posts one work log per item.                           *)
(*                                                                         *)
(* Strings are sequences of one-character strings, so that the regular     *)
(* expression of findJiraIds and the string joins are computed, not        *)
(* assumed.  A run is a chain of handlers: the generator bodies between    *)
(* two yields and the callbacks of the three requests.  Each handler is    *)
(* one action.                                                             *)
(***************************************************************************)
EXTENDS Integers, Sequences, FiniteSets, TLC

VARIABLES
    program,        \* the parsed command-line flags (commander)
    pc,             \* where the run is suspended: a prompt, a request, or ended
    exitCode,       \* the exit status of the process, NoExit while it runs
    apiToken,       \* let apiToken           (line 35)
    workspace,      \* let workspace          (line 43)
    username,       \* let username           (line 205)
    password,       \* let password           (line 212)
    requests,       \* every request sent so far, in order
    pending,        \* indexes in requests whose callback has not run yet
    reportBody,     \* what the callback of the report GET received
    allItems,       \* let allItems           (line 133): the queue of work items
    totalDuration,  \* let totalDuration      (line 134)
    uniqueJiraIds,  \* let uniqueJiraIds      (line 160)
    summary,        \* the lines of the printed summary (lines 174-188)
    issuesBody,     \* what the callback of the issue search received
    verified,       \* the printed outcome of every verified id (lines 253-264)
    ok,             \* the answer to the confirmation prompt (line 275)
    responses,      \* what the callbacks of the work-log POSTs received, in order
    stderr,         \* the failures reported with console.error, in order
    text,           \* the argument of a call of findJiraIds on its own
    matches         \* what that call returned

vars == <<program, pc, exitCode, apiToken, workspace, username, password,
          requests, pending, reportBody, allItems, totalDuration,
          uniqueJiraIds, summary, issuesBody, verified, ok, responses, stderr,
          text, matches>>

----------------------------------------------------------------------------
(* Values *)

\* JavaScript's undefined: a flag that was not given, item.jiraIds[0] of an
\* item without ids, the response of a request that failed in transport.
Undefined == <<>>

\* exitCode while the process is running.
NoExit == 0 - 1

\* The falsy err of a callback whose request got a 2xx response.
NoError == <<>>

\* The only status the work-log callback accepts (line 326).
Created == 201

\* The divisor of line 296.
MillisPerSecond == 1000

Lower == {"a","b","c","d","e","f","g","h","i","j","k","l","m",
          "n","o","p","q","r","s","t","u","v","w","x","y","z"}
Upper == {"A","B","C","D","E","F","G","H","I","J","K","L","M",
          "N","O","P","Q","R","S","T","U","V","W","X","Y","Z"}
Letter == Lower \cup Upper
Digit == {"0","1","2","3","4","5","6","7","8","9"}
NonZeroDigit == Digit \ {"0"}
WordChar == Letter \cup Digit \cup {"_"}

----------------------------------------------------------------------------
(* findJiraIds (lines 20-29): the global match of the pattern             *)
(* letter, one or more word characters, hyphen, digit 1-9, digits.        *)

\* The first index >= i of s that holds no character of class (Len(s)+1 if
\* there is none): where a greedy run of class that starts at i ends.
RECURSIVE RunEnd(_, _, _)
RunEnd(s, i, class) ==
    IF i > Len(s) \/ s[i] \notin class THEN i ELSE RunEnd(s, i + 1, class)

\* MatchAt with [0-9] for [1-9]: any digit may follow the hyphen.
MatchAtAnyDigit(s, i) ==
    IF i > Len(s) \/ s[i] \notin Letter THEN 0
    ELSE LET j == RunEnd(s, i + 1, WordChar)
         IN  IF j = i + 1 THEN 0
             ELSE IF j > Len(s) \/ s[j] # "-" THEN 0
             ELSE IF j + 1 > Len(s) \/ s[j + 1] \notin Digit THEN 0
             ELSE RunEnd(s, j + 2, Digit)

\* The index after the match of the pattern that starts at i, 0 if the
\* pattern does not match there.  The run [a-zA-Z0-9_]+ is greedy; giving
\* characters back never helps, since the character after a shorter run is a
\* word character and the pattern wants a hyphen there.
MatchAt(s, i) ==
    IF i > Len(s) \/ s[i] \notin Letter THEN 0
    ELSE LET j == RunEnd(s, i + 1, WordChar)
         IN  IF j = i + 1 THEN 0
             ELSE IF j > Len(s) \/ s[j] # "-" THEN 0
             ELSE IF j + 1 > Len(s) \/ s[j + 1] \notin NonZeroDigit THEN 0
             ELSE RunEnd(s, j + 2, Digit)

\* The g flag: the matches from left to right, each search resuming where
\* the previous match ended.
RECURSIVE MatchAll(_, _)
MatchAll(s, i) ==
    IF i > Len(s) THEN <<>>
    ELSE LET e == MatchAt(s, i)
         IN  IF e = 0 THEN MatchAll(s, i + 1)
             ELSE <<SubSeq(s, i, e - 1)>> \o MatchAll(s, e)

\* match() gives null when nothing matches, and findJiraIds turns it into [].
findJiraIds(string) ==
    LET m == MatchAll(string, 1)
    IN  IF Len(m) = 0 THEN <<>> ELSE m

----------------------------------------------------------------------------
(* The report callback: merging the entries (lines 96-149) *)

\* project.items[description]: the position of the item kept under that key,
\* 0 if there is none.  The items of a project are kept in insertion order,
\* the order for-in enumerates string keys in.
RECURSIVE ItemIndex(_, _, _)
ItemIndex(items, description, i) ==
    IF i > Len(items) THEN 0
    ELSE IF items[i].description = description THEN i
    ELSE ItemIndex(items, description, i + 1)

\* UpdateItem with "=" for "+=" on the duration.
UpdateItemOverwrite(item, log) ==
    [item EXCEPT !.duration = log.dur, !.occurrences = @ + 1]

\* The item after "item.duration += log.dur; item.occurrences += 1".
UpdateItem(item, log) ==
    [item EXCEPT !.duration = @ + log.dur, !.occurrences = @ + 1]

\* One turn of the forEach over res.body.data (lines 98-130).
MergeLog(projects, log) ==
    LET project == IF log.pid \in DOMAIN projects
                   THEN projects[log.pid]
                   ELSE [name |-> log.project, id |-> log.pid, items |-> <<>>]
        k == ItemIndex(project.items, log.description, 1)
        item == IF k # 0
                THEN project.items[k]
                ELSE [description |-> log.description,
                      jiraIds |-> findJiraIds(log.description),
                      duration |-> 0,
                      occurrences |-> 0]
        updated == UpdateItem(item, log)
        items == IF k # 0
                 THEN [project.items EXCEPT ![k] = updated]
                 ELSE Append(project.items, updated)
    IN  (log.pid :> [project EXCEPT !.items = items]) @@ projects

\* let projects after the forEach: a dictionary from pid to project.
RECURSIVE MergeData(_, _)
MergeData(projects, data) ==
    IF data = <<>> THEN projects
    ELSE MergeData(MergeLog(projects, Head(data)), Tail(data))

\* The items of one project, each with the project's name set (line 143).
ProjectItems(project) ==
    [i \in 1..Len(project.items) |->
        [project |-> project.name] @@ project.items[i]]

\* The for-in loops of lines 135-149.  The keys of projects are integers, and
\* for-in enumerates integer keys in ascending order.
RECURSIVE Flatten(_, _)
Flatten(projects, pids) ==
    IF pids = {} THEN <<>>
    ELSE LET pid == CHOOSE p \in pids : \A q \in pids : p <= q
         IN  ProjectItems(projects[pid]) \o Flatten(projects, pids \ {pid})

\* let allItems after line 149.
Aggregate(data) ==
    LET projects == MergeData(<<>>, data)
    IN  Flatten(projects, DOMAIN projects)

RECURSIVE SumDuration(_)
SumDuration(items) ==
    IF items = <<>> THEN 0
    ELSE Head(items).duration + SumDuration(Tail(items))

----------------------------------------------------------------------------
(* The report callback: the summary loop (lines 157-196) *)

\* item.jiraId = item.jiraIds[0] (line 167): undefined for an empty array.
SetJiraId(item) ==
    [jiraId |-> IF Len(item.jiraIds) >= 1 THEN item.jiraIds[1] ELSE Undefined]
        @@ item

\* uniqueJiraIds.indexOf(id) === -1
NotIn(ids, id) == \A i \in 1..Len(ids) : ids[i] # id

\* PushUnique without the indexOf test.
PushUniqueAlways(unique, item) ==
    IF item.jiraId # Undefined THEN Append(unique, item.jiraId) ELSE unique

\* Lines 170-172: an id is pushed when it is truthy and not yet in the array.
PushUnique(unique, item) ==
    IF item.jiraId # Undefined /\ NotIn(unique, item.jiraId)
    THEN Append(unique, item.jiraId)
    ELSE unique

RECURSIVE CollectUnique(_, _)
CollectUnique(unique, items) ==
    IF items = <<>> THEN unique
    ELSE CollectUnique(PushUnique(unique, Head(items)), Tail(items))

\* Status with the last branch lost: any item with an id counts as Ready.
StatusAnyId(item) ==
    IF Len(item.jiraIds) >= 1 THEN "Ready" ELSE "No Jira Id"

\* The status printed for an item (lines 180-188).
Status(item) ==
    IF Len(item.jiraIds) = 1 THEN "Ready"
    ELSE IF Len(item.jiraIds) = 0 THEN "No Jira Id"
    ELSE "Multiple Jira Ids"

\* CountIssues with the "issues ++" of the last branch lost.
RECURSIVE CountIssuesNoIdOnly(_)
CountIssuesNoIdOnly(items) ==
    IF items = <<>> THEN 0
    ELSE (IF Len(Head(items).jiraIds) = 0 THEN 1 ELSE 0)
         + CountIssuesNoIdOnly(Tail(items))

\* let issues after the loop: one more for every item in an else branch.
RECURSIVE CountIssues(_)
CountIssues(items) ==
    IF items = <<>> THEN 0
    ELSE (IF Status(Head(items)) = "Ready" THEN 0 ELSE 1)
         + CountIssues(Tail(items))

\* What the loop prints for the i-th item (lines 175-188).  The duration is
\* printed through a date format and is left out.
SummaryLine(i, item) ==
    [n |-> i, description |-> item.description, count |-> item.occurrences,
     jira |-> item.jiraIds, status |-> Status(item)]

\* Line 193.
HasIssues(items) == CountIssues(items) > 0

\* array.join(separator)
RECURSIVE Join(_, _)
Join(strings, separator) ==
    IF strings = <<>> THEN <<>>
    ELSE IF Len(strings) = 1 THEN Head(strings)
    ELSE Head(strings) \o separator \o Join(Tail(strings), separator)

\* let jql (line 199)
Jql(unique) ==
    <<"k","e","y"," ","i","n"," ","(","\"">>
        \o Join(unique, <<"\"", ",", "\"">>) \o <<"\"", ")">>

----------------------------------------------------------------------------
(* The issue search callback: verification (lines 242-269) *)

\* let issues (lines 243-249): a dictionary from key to issue; a later issue
\* with the same key replaces an earlier one.
RECURSIVE IssuesByKey(_, _)
IssuesByKey(issues, list) ==
    IF list = <<>> THEN issues
    ELSE LET issue == Head(list)
         IN  IssuesByKey(
                (issue.key :> [key |-> issue.key, isSubtask |-> issue.subtask])
                    @@ issues,
                Tail(list))

\* Outcome without the test of the issue type.
OutcomeAnyType(issues, key) ==
    IF key \notin DOMAIN issues THEN "Doesn't exist" ELSE "Found"

\* What is printed for a key (lines 254-263).
Outcome(issues, key) ==
    IF key \notin DOMAIN issues THEN "Doesn't exist"
    ELSE IF ~issues[key].isSubtask THEN "Not a subtask"
    ELSE "Found"

\* Verify stopping at the first key that is not found as a subtask.
VerifyUntilFirstError(issues, unique) ==
    LET bad == {i \in 1..Len(unique) : Outcome(issues, unique[i]) # "Found"}
        last == IF bad = {} THEN Len(unique)
                ELSE CHOOSE i \in bad : \A j \in bad : i <= j
    IN  [i \in 1..last |->
            [key |-> unique[i], outcome |-> Outcome(issues, unique[i])]]

\* The lines printed by the forEach over uniqueJiraIds.
Verify(issues, unique) ==
    [i \in 1..Len(unique) |->
        [key |-> unique[i], outcome |-> Outcome(issues, unique[i])]]

\* let errors after the loop.
CountErrors(lines) ==
    Cardinality({i \in 1..Len(lines) : lines[i].outcome # "Found"})

\* HasErrors never true: the count of errors is not looked at.
HasErrorsNever(lines) == FALSE

\* Line 266.
HasErrors(lines) == CountErrors(lines) > 0

----------------------------------------------------------------------------
(* createNextWorkLog: the request for one item (lines 294-322) *)

\* item.duration / 1000.0 is a division of numbers, not of integers: the
\* quotient is kept as its whole seconds and its thousandths of a second.
TimeInSeconds(duration) ==
    [whole |-> duration \div MillisPerSecond,
     thousandths |-> duration % MillisPerSecond]

CommentSuffix ==
    <<" ","\n","\n","(","I","m","p","o","r","t","e","d"," ",
      "v","i","a"," ","J","o","g","g","l",")">>

WorkLogRequest(item, user, pass) ==
    [kind |-> "worklog", method |-> "POST", jiraId |-> item.jiraId,
     body |-> [comment |-> item.description \o CommentSuffix,
               timeSpentSeconds |-> TimeInSeconds(item.duration)],
     auth |-> <<user, pass>>]

\* IsCreated without a look at the status.
IsCreatedAlways(res) == TRUE

\* IsCreated accepting every 2xx status.
IsCreatedAny2xx(res) == res.statusCode >= 200 /\ res.statusCode < 300

\* Line 326.
IsCreated(res) == res.statusCode = Created

----------------------------------------------------------------------------
(* The inputs of a run: the flags, the answers to the prompts, and what the *)
(* two services answer.                                                     *)

\* per_page of the report: the size of the one page the report returns.
PerPage == 2

Pids == {1, 2}

ProjectName(pid) == IF pid = 1 THEN <<"X">> ELSE <<"Y">>

\* Descriptions: "AB-1", "AB-1 b" (the same id under another description),
\* "CD-2", "AB-0" (no id) and "AB-1 CD-2" (two ids).
Descriptions ==
    { <<"A","B","-","1">>,
      <<"A","B","-","1"," ","b">>,
      <<"C","D","-","2">>,
      <<"A","B","-","0">>,
      <<"A","B","-","1"," ","C","D","-","2">> }

\* dur, in milliseconds: a second and a half, so that the sum of two is a
\* whole number of seconds and one alone is not.
Durations == {1500}

Entries ==
    { [pid |-> p, project |-> ProjectName(p), description |-> d, dur |-> u] :
        p \in Pids, d \in Descriptions, u \in Durations }

\* An err without a response: the request failed in transport.
TransportError == <<"ECONNREFUSED">>

\* The err superagent gives with a 4xx or 5xx response.
HttpError == <<"Internal Server Error">>

\* The report holds the first min(total_count, per_page) entries.
ReportBodies ==
    UNION { { [total_count |-> total, per_page |-> PerPage, data |-> data] :
                data \in [1..(IF total < PerPage THEN total ELSE PerPage) -> Entries] } :
            total \in 0..(PerPage + 1) }

ReportAnswers ==
    { [err |-> TransportError, res |-> Undefined],
      [err |-> HttpError, res |-> [statusCode |-> 500, body |-> Undefined]] }
    \cup { [err |-> NoError, res |-> [statusCode |-> 200, body |-> b]] :
            b \in ReportBodies }

\* The issues a search for the keys of unique returns: for every key either
\* nothing, a subtask or an issue of another type, in the order of the keys.
RECURSIVE IssueList(_, _, _)
IssueList(unique, found, i) ==
    IF i > Len(unique) THEN <<>>
    ELSE (IF found[i] = "absent" THEN <<>>
          ELSE <<[key |-> unique[i], subtask |-> (found[i] = "subtask")]>>)
         \o IssueList(unique, found, i + 1)

SearchAnswers(unique) ==
    { [err |-> TransportError, res |-> Undefined],
      [err |-> HttpError, res |-> [statusCode |-> 500, body |-> Undefined]] }
    \cup { [err |-> NoError,
            res |-> [statusCode |-> 200,
                     body |-> [issues |-> IssueList(unique, found, 1)]]] :
            found \in [1..Len(unique) -> {"absent", "subtask", "other"}] }

WorkLogAnswers ==
    { [err |-> TransportError, res |-> Undefined],
      [err |-> HttpError, res |-> [statusCode |-> 500]],
      [err |-> NoError, res |-> [statusCode |-> 200]],
      [err |-> NoError, res |-> [statusCode |-> Created]] }

ApiTokenFlag == <<"t","F">>
ApiTokenTyped == <<"t","T">>
WorkspaceFlag == <<"7">>
WorkspaceTyped == <<"8">>
UsernameFlag == <<"u","F">>
UsernameTyped == <<"u","T">>
PasswordFlag == <<"p","F">>
PasswordTyped == <<"p","T">>

Programs ==
    [apiToken : {Undefined, ApiTokenFlag},
     workspace : {Undefined, WorkspaceFlag},
     username : {Undefined, UsernameFlag},
     password : {Undefined, PasswordFlag}]

----------------------------------------------------------------------------
(* The run *)

Init ==
    /\ program \in Programs
    /\ pc = "main"
    /\ exitCode = NoExit
    /\ apiToken = Undefined
    /\ workspace = Undefined
    /\ username = Undefined
    /\ password = Undefined
    /\ requests = <<>>
    /\ pending = {}
    /\ reportBody = Undefined
    /\ allItems = <<>>
    /\ totalDuration = 0
    /\ uniqueJiraIds = <<>>
    /\ summary = <<>>
    /\ issuesBody = Undefined
    /\ verified = <<>>
    /\ ok = FALSE
    /\ responses = <<>>
    /\ stderr = <<>>
    /\ text = <<>>
    /\ matches = <<>>

Running == exitCode = NoExit

\* process.exit(code)
Exit(code) == pc' = "exit" /\ exitCode' = code

\* request.get(reportUrl).auth(apiToken, 'api_token') (lines 57-78)
ReportRequest(token, ws) ==
    [kind |-> "report", method |-> "GET", workspace_id |-> ws,
     auth |-> <<token, "api_token">>]

\* request.get(queryUrl).auth(username, password) (lines 219-232)
SearchRequest(unique, user, pass) ==
    [kind |-> "search", method |-> "GET", jql |-> Jql(unique),
     auth |-> <<user, pass>>]

\* .end(callback): the request leaves and its callback is owed.
Send(request, sent, owed) ==
    /\ requests' = Append(sent, request)
    /\ pending' = owed \cup {Len(sent) + 1}
    /\ pc' = "request"

\* What the workspace prompt's answer is assigned to (line 46): apiToken.
AfterWorkspacePrompt(token, ws, answer) ==
    [apiToken |-> answer, workspace |-> ws]

\* Lines 43-78, entered with the API token settled.
FromWorkspace(token) ==
    /\ workspace' = program.workspace
    /\ apiToken' = token
    /\ IF program.workspace = Undefined
       THEN pc' = "promptWorkspace" /\ UNCHANGED <<requests, pending>>
       ELSE Send(ReportRequest(token, program.workspace), requests, pending)

\* Lines 32-38: the generator runs to its first yield, or to the request.
Main ==
    /\ pc = "main"
    /\ IF program.apiToken = Undefined
       THEN /\ pc' = "promptApiToken"
            /\ apiToken' = program.apiToken
            /\ UNCHANGED <<workspace, requests, pending>>
       ELSE FromWorkspace(program.apiToken)
    /\ UNCHANGED <<program, exitCode, username, password, reportBody, allItems,
                   totalDuration, uniqueJiraIds, summary, issuesBody, verified,
                   ok, responses, stderr>>
    /\ UNCHANGED <<text, matches>>

\* apiToken = yield prompt('API Token: ') and on (lines 38-78).
AnswerApiToken ==
    /\ pc = "promptApiToken"
    /\ FromWorkspace(ApiTokenTyped)
    /\ UNCHANGED <<program, exitCode, username, password, reportBody, allItems,
                   totalDuration, uniqueJiraIds, summary, issuesBody, verified,
                   ok, responses, stderr>>
    /\ UNCHANGED <<text, matches>>

\* apiToken = yield prompt('Workspace Id: ') and on (lines 46-78).
AnswerWorkspace ==
    /\ pc = "promptWorkspace"
    /\ LET after == AfterWorkspacePrompt(apiToken, workspace, WorkspaceTyped)
       IN  /\ apiToken' = after.apiToken
           /\ workspace' = after.workspace
           /\ Send(ReportRequest(after.apiToken, after.workspace),
                   requests, pending)
    /\ UNCHANGED <<program, exitCode, username, password, reportBody, allItems,
                   totalDuration, uniqueJiraIds, summary, issuesBody, verified,
                   ok, responses, stderr>>
    /\ UNCHANGED <<text, matches>>

\* PageLimitExceeded with ">=" for ">".
PageLimitExceededAtLimit(body) == body.total_count >= body.per_page

\* Line 89.
PageLimitExceeded(body) == body.total_count > body.per_page

\* allItems after the summary loop: every item has its jiraId.
Summarised(items) == [i \in 1..Len(items) |-> SetJiraId(items[i])]

\* ReportStage without the test for an empty allItems (lines 152-155).
ReportStageNoEmptyCheck(answer) ==
    IF answer.err # NoError THEN "error"
    ELSE IF PageLimitExceeded(answer.res.body) THEN "too many"
    ELSE IF HasIssues(Aggregate(answer.res.body.data)) THEN "issues"
    ELSE "ready"

\* How far the report callback gets with an answer (lines 79-196).
ReportStage(answer) ==
    IF answer.err # NoError THEN "error"
    ELSE IF PageLimitExceeded(answer.res.body) THEN "too many"
    ELSE IF Len(Aggregate(answer.res.body.data)) = 0 THEN "nothing"
    ELSE IF HasIssues(Aggregate(answer.res.body.data)) THEN "issues"
    ELSE "ready"

\* Lines 211-232, entered with the username settled.
FromPassword(user, unique, sent, owed) ==
    /\ username' = user
    /\ password' = program.password
    /\ IF program.password = Undefined
       THEN pc' = "promptPassword" /\ requests' = sent /\ pending' = owed
       ELSE Send(SearchRequest(unique, user, program.password), sent, owed)

\* Lines 202-232: the generator runs to its first yield, or to the request.
FromUsername(unique, sent, owed) ==
    IF program.username = Undefined
    THEN /\ pc' = "promptUsername"
         /\ username' = program.username
         /\ requests' = sent
         /\ pending' = owed
         /\ UNCHANGED password
    ELSE FromPassword(program.username, unique, sent, owed)

\* The callback of the report GET (lines 79-232).
ReportCallback ==
    /\ Running
    /\ \E i \in pending, answer \in ReportAnswers :
        /\ requests[i].kind = "report"
        /\ reportBody' = answer
        /\ LET stage == ReportStage(answer)
               merged == Aggregate(answer.res.body.data)
               items == Summarised(merged)
               unique == CollectUnique(<<>>, items)
           IN  /\ allItems' = CASE stage \in {"error", "too many"} -> allItems
                                [] stage = "nothing" -> merged
                                [] OTHER -> items
               /\ totalDuration' = IF stage \in {"error", "too many"}
                                   THEN totalDuration
                                   ELSE SumDuration(merged)
               /\ uniqueJiraIds' = IF stage \in {"issues", "ready"}
                                   THEN unique ELSE uniqueJiraIds
               /\ summary' = IF stage \in {"issues", "ready"}
                             THEN [n \in 1..Len(items) |-> SummaryLine(n, items[n])]
                             ELSE summary
               /\ stderr' = CASE stage = "error" -> Append(stderr, answer.err)
                              [] stage = "too many" ->
                                    Append(stderr, <<"too many entries">>)
                              [] stage = "issues" ->
                                    Append(stderr, <<"issues", CountIssues(items)>>)
                              [] OTHER -> stderr
               /\ CASE stage \in {"error", "too many", "issues"} ->
                        /\ Exit(1)
                        /\ requests' = requests
                        /\ pending' = pending \ {i}
                        /\ UNCHANGED <<username, password>>
                    [] stage = "nothing" ->
                        /\ Exit(0)
                        /\ requests' = requests
                        /\ pending' = pending \ {i}
                        /\ UNCHANGED <<username, password>>
                    [] OTHER ->
                        /\ FromUsername(unique, requests, pending \ {i})
                        /\ UNCHANGED exitCode
    /\ UNCHANGED <<program, apiToken, workspace, issuesBody, verified, ok,
                   responses>>
    /\ UNCHANGED <<text, matches>>

\* username = yield prompt('Jira Username: ') and on (lines 207-232).
AnswerUsername ==
    /\ pc = "promptUsername"
    /\ FromPassword(UsernameTyped, uniqueJiraIds, requests, pending)
    /\ UNCHANGED <<program, exitCode, apiToken, workspace, reportBody, allItems,
                   totalDuration, uniqueJiraIds, summary, issuesBody, verified,
                   ok, responses, stderr>>
    /\ UNCHANGED <<text, matches>>

\* password = yield prompt.password('Jira Password: ') and on (lines 214-232).
AnswerPassword ==
    /\ pc = "promptPassword"
    /\ password' = PasswordTyped
    /\ Send(SearchRequest(uniqueJiraIds, username, PasswordTyped),
            requests, pending)
    /\ UNCHANGED <<program, exitCode, apiToken, workspace, username, reportBody,
                   allItems, totalDuration, uniqueJiraIds, summary, issuesBody,
                   verified, ok, responses, stderr>>
    /\ UNCHANGED <<text, matches>>

\* The callback of the issue search (lines 233-275): it ends at the yield of
\* the confirmation prompt.
SearchCallback ==
    /\ Running
    /\ \E i \in pending, answer \in SearchAnswers(uniqueJiraIds) :
        /\ requests[i].kind = "search"
        /\ issuesBody' = answer
        /\ pending' = pending \ {i}
        /\ IF answer.err # NoError
           THEN /\ stderr' = Append(stderr, answer.err)
                /\ Exit(1)
                /\ UNCHANGED verified
           ELSE LET issues == IssuesByKey(<<>>, answer.res.body.issues)
                    lines == Verify(issues, uniqueJiraIds)
                IN  /\ verified' = lines
                    /\ IF HasErrors(lines)
                       THEN /\ stderr' = Append(stderr,
                                            <<"errors", CountErrors(lines)>>)
                            /\ Exit(1)
                       ELSE /\ pc' = "confirm"
                            /\ UNCHANGED <<stderr, exitCode>>
    /\ UNCHANGED <<program, apiToken, workspace, username, password, requests,
                   reportBody, allItems, totalDuration, uniqueJiraIds, summary,
                   ok, responses>>
    /\ UNCHANGED <<text, matches>>

\* createNextWorkLog sending every item of the queue at once.
createNextWorkLogAll(queue, sent, owed) ==
    IF Len(queue) = 0
    THEN /\ Exit(0)
         /\ allItems' = queue
         /\ requests' = sent
         /\ pending' = owed
    ELSE /\ allItems' = <<>>
         /\ requests' = sent \o [i \in 1..Len(queue) |->
                                    WorkLogRequest(queue[i], username, password)]
         /\ pending' = owed \cup (Len(sent) + 1 .. Len(sent) + Len(queue))
         /\ pc' = "request"
         /\ UNCHANGED exitCode

\* createNextWorkLog without the process.exit(0) of the empty queue: the
\* function returns and the process waits on.
createNextWorkLogNoExit(queue, sent, owed) ==
    IF Len(queue) = 0
    THEN /\ pc' = "idle"
         /\ allItems' = queue
         /\ requests' = sent
         /\ pending' = owed
         /\ UNCHANGED exitCode
    ELSE /\ allItems' = Tail(queue)
         /\ Send(WorkLogRequest(Head(queue), username, password), sent, owed)
         /\ UNCHANGED exitCode

\* createNextWorkLog taking the last item of the queue (pop for shift).
createNextWorkLogPop(queue, sent, owed) ==
    IF Len(queue) = 0
    THEN /\ Exit(0)
         /\ allItems' = queue
         /\ requests' = sent
         /\ pending' = owed
    ELSE /\ allItems' = SubSeq(queue, 1, Len(queue) - 1)
         /\ Send(WorkLogRequest(queue[Len(queue)], username, password),
                 sent, owed)
         /\ UNCHANGED exitCode

\* Declined never taken: the answer is not looked at.
DeclinedNever(answer) == FALSE

\* Line 278: if (!ok)
Declined(answer) == ~answer

\* function createNextWorkLog() (lines 283-322), called with the queue, the
\* requests sent and the callbacks owed as they are at the call.
createNextWorkLog(queue, sent, owed) ==
    IF Len(queue) = 0
    THEN /\ Exit(0)
         /\ allItems' = queue
         /\ requests' = sent
         /\ pending' = owed
    ELSE /\ allItems' = Tail(queue)
         /\ Send(WorkLogRequest(Head(queue), username, password), sent, owed)
         /\ UNCHANGED exitCode

\* ok = yield prompt.confirm(...) and on (lines 275-339).
AnswerConfirm ==
    /\ pc = "confirm"
    /\ \E answer \in BOOLEAN :
        /\ ok' = answer
        /\ IF Declined(answer)
           THEN Exit(0) /\ UNCHANGED <<allItems, requests, pending>>
           ELSE createNextWorkLog(allItems, requests, pending)
    /\ UNCHANGED <<program, apiToken, workspace, username, password, reportBody,
                   totalDuration, uniqueJiraIds, summary, issuesBody, verified,
                   responses, stderr>>
    /\ UNCHANGED <<text, matches>>

\* The callback of a work-log POST (lines 323-335).  It reads res.statusCode
\* before it looks at err: with no response the read throws a TypeError out
\* of the callback, which nothing catches, and the runtime ends the process
\* with its status for an uncaught exception, 1.
WorkLogCallback ==
    /\ Running
    /\ \E i \in pending, answer \in WorkLogAnswers :
        /\ requests[i].kind = "worklog"
        /\ responses' = Append(responses, answer)
        /\ IF answer.res = Undefined
           THEN /\ pc' = "uncaught"
                /\ exitCode' = 1
                /\ pending' = pending \ {i}
                /\ UNCHANGED <<allItems, requests, stderr>>
           ELSE IF IsCreated(answer.res)
           THEN /\ createNextWorkLog(allItems, requests, pending \ {i})
                /\ UNCHANGED stderr
           ELSE /\ stderr' = Append(stderr, answer.err)
                /\ Exit(1)
                /\ pending' = pending \ {i}
                /\ UNCHANGED <<allItems, requests>>
    /\ UNCHANGED <<program, apiToken, workspace, username, password, reportBody,
                   totalDuration, uniqueJiraIds, summary, issuesBody, verified,
                   ok>>
    /\ UNCHANGED <<text, matches>>

Next ==
    \/ Main
    \/ AnswerApiToken
    \/ AnswerWorkspace
    \/ ReportCallback
    \/ AnswerUsername
    \/ AnswerPassword
    \/ SearchCallback
    \/ AnswerConfirm
    \/ WorkLogCallback

Spec == Init /\ [][Next]_vars

\* The run with every prompt answered and every request answered in the end:
\* a handler that can run does run.
LiveSpec == Spec /\ WF_vars(Next)

----------------------------------------------------------------------------
(* findJiraIds on its own: one call on a text *)

\* The longest beginning of a text that is drawn freely.
MaxTextLen == 4

\* A letter, both digits of interest, the hyphen, a word character that is
\* neither letter nor digit, and a character outside the pattern.
TextChars == {"A", "1", "0", "-", "_", " "}

\* What a text ends with: nothing, "AB-0" or "AB-10".
TextEnds ==
    { <<>>, <<"A","B","-","0">>, <<"A","B","-","1","0">> }

Texts ==
    { begin \o end :
        begin \in UNION { [1..n -> TextChars] : n \in 0..MaxTextLen },
        end \in TextEnds }

ExtractInit ==
    /\ text \in Texts
    /\ matches = <<>>
    /\ pc = "extract"
    /\ program = [apiToken |-> Undefined, workspace |-> Undefined,
                  username |-> Undefined, password |-> Undefined]
    /\ exitCode = NoExit
    /\ apiToken = Undefined
    /\ workspace = Undefined
    /\ username = Undefined
    /\ password = Undefined
    /\ requests = <<>>
    /\ pending = {}
    /\ reportBody = Undefined
    /\ allItems = <<>>
    /\ totalDuration = 0
    /\ uniqueJiraIds = <<>>
    /\ summary = <<>>
    /\ issuesBody = Undefined
    /\ verified = <<>>
    /\ ok = FALSE
    /\ responses = <<>>
    /\ stderr = <<>>

\* The call findJiraIds(text) (lines 20-29).
Extract ==
    /\ pc = "extract"
    /\ matches' = findJiraIds(text)
    /\ pc' = "extracted"
    /\ UNCHANGED <<program, exitCode, apiToken, workspace, username, password,
                   requests, pending, reportBody, allItems, totalDuration,
                   uniqueJiraIds, summary, issuesBody, verified, ok, responses,
                   stderr, text>>

NextExtract == Extract

SpecExtract == ExtractInit /\ [][NextExtract]_vars

----------------------------------------------------------------------------
(* What the properties below speak of *)

\* The work-log POSTs sent so far, in the order they were sent.
Posts == SelectSeq(requests, LAMBDA r : r.kind = "worklog")

NumPosts == Len(Posts)

\* The work-log POSTs whose callback has not run yet.
InFlight == {i \in pending : requests[i].kind = "worklog"}

\* Only the report GET has been sent: nothing went to the issue tracker.
NoIssueTrackerRequest ==
    \A r \in 1..Len(requests) : requests[r].kind = "report"

\* The report arrived with a body.
ReportOk == reportBody # Undefined /\ reportBody.err = NoError

\* The report arrived and fits the page, so the callback merged its entries.
ReportMerged ==
    ReportOk /\ reportBody.res.body.total_count <= reportBody.res.body.per_page

\* The aggregated work items of the run, in the order of the summary.
Aggregated ==
    IF ReportMerged
    THEN Summarised(Aggregate(reportBody.res.body.data))
    ELSE <<>>

\* The issue search arrived with a body.
SearchOk == issuesBody # Undefined /\ issuesBody.err = NoError

Returned == issuesBody.res.body.issues

Absent(id) == \A k \in 1..Len(Returned) : Returned[k].key # id

NotSubtask(id) ==
    \E k \in 1..Len(Returned) : Returned[k].key = id /\ ~Returned[k].subtask

FoundSubtask(id) ==
    \E k \in 1..Len(Returned) : Returned[k].key = id /\ Returned[k].subtask

DistinctResolved == {uniqueJiraIds[i] : i \in 1..Len(uniqueJiraIds)}

\* The run got as far as the confirmation prompt.
Asked == SearchOk /\ \A id \in DistinctResolved : FoundSubtask(id)

\* The k-th work-log callback got a response, with status 201 or another.
Answered201(k) ==
    responses[k].res # Undefined /\ responses[k].res.statusCode = Created

AnsweredOther(k) ==
    responses[k].res # Undefined /\ responses[k].res.statusCode # Created

\* post is the work log of item: its id, its description, its duration.
PostIsFor(post, item) ==
    /\ Len(item.jiraIds) = 1
    /\ post.jiraId = item.jiraIds[1]
    /\ SubSeq(post.body.comment, 1, Len(item.description)) = item.description
    /\ post.body.timeSpentSeconds.whole * MillisPerSecond
         + post.body.timeSpentSeconds.thousandths = item.duration

Ended(code) == pc = "exit" /\ exitCode = code

----------------------------------------------------------------------------
(* Properties *)

\* C1. Local-classification gate: whenever some aggregated work item has a
\* number of candidate ids other than 1, the run has ended with exit code 1
\* and has sent nothing to the issue tracker, neither the search nor a POST.
C1_LocalGate ==
    (\E i \in 1..Len(Aggregated) : Len(Aggregated[i].jiraIds) # 1)
        => Ended(1) /\ NoIssueTrackerRequest /\ NumPosts = 0

\* A run ended by an item with two ids, after the summary was printed.
C1_Witness ==
    /\ Ended(1)
    /\ Len(summary) >= 1
    /\ \E i \in 1..Len(Aggregated) : Len(Aggregated[i].jiraIds) > 1

\* C2. Cross-check gate: whenever the search response lacks a distinct
\* resolved id, or holds it with subtask = false, the run has ended with exit
\* code 1 without the confirmation having been given and with no POST sent;
\* and a POST is sent only when every distinct resolved id was returned with
\* subtask = true.
C2_CrossCheckGate ==
    /\ (SearchOk /\ \E id \in DistinctResolved : Absent(id) \/ NotSubtask(id))
        => Ended(1) /\ ~ok /\ NumPosts = 0
    /\ NumPosts > 0 => Asked

\* A run ended by an id that is returned but is no subtask, beside one that
\* was found.
C2_Witness ==
    /\ SearchOk
    /\ Ended(1)
    /\ \E id \in DistinctResolved : NotSubtask(id)
    /\ \E id \in DistinctResolved : FoundSubtask(id)

\* C3. Sequential submission: at most one work-log POST is in flight, and
\* the k-th POST (k >= 2) is sent only after the callback of the (k-1)-th got
\* a response with status 201.
C3_Sequential ==
    /\ Cardinality(InFlight) <= 1
    /\ \A k \in 2..NumPosts : Len(responses) >= k - 1 /\ Answered201(k - 1)

\* The second POST is in flight.
C3_Witness == NumPosts = 2 /\ Cardinality(InFlight) = 1

\* C4. Fail-fast submission: once the k-th POST was answered with a status
\* other than 201, the run has ended with exit code 1, exactly k POSTs were
\* sent, the j-th for the j-th item (j <= k), and the items after the k-th
\* are still in the queue, never posted.
C4_FailFast ==
    \A k \in 1..Len(responses) :
        AnsweredOther(k) =>
            /\ Ended(1)
            /\ InFlight = {}
            /\ NumPosts = k
            /\ \A j \in 1..k : PostIsFor(Posts[j], Aggregated[j])
            /\ allItems = SubSeq(Aggregated, k + 1, Len(Aggregated))

\* The first of two items failed: one POST sent, one item left.
C4_Witness ==
    /\ Len(responses) = 1
    /\ AnsweredOther(1)
    /\ Len(Aggregated) = 2
    /\ Len(allItems) = 1

\* C5. Full success: in a run the user confirmed and in which every POST so
\* far was answered with 201, the POSTs sent are the work logs of the first
\* items of the aggregated sequence, one per item and in its order, which is
\* the order of the summary; with all N answered the queue is empty and the
\* run has ended with exit code 0, and until then it runs.
C5_FullSuccess ==
    (ok /\ \A k \in 1..Len(responses) : Answered201(k)) =>
        LET n == Len(Aggregated)
        IN  /\ NumPosts = IF Len(responses) < n THEN Len(responses) + 1 ELSE n
            /\ \A j \in 1..NumPosts :
                /\ PostIsFor(Posts[j], Aggregated[j])
                /\ summary[j].description = Aggregated[j].description
            /\ Len(responses) = n => Ended(0) /\ allItems = <<>>
            /\ Len(responses) < n => Running

\* Two items with different ids were both posted and the run ended with 0.
C5_Witness ==
    /\ ok
    /\ Ended(0)
    /\ NumPosts = 2
    /\ Len(responses) = 2
    /\ Posts[1].jiraId # Posts[2].jiraId

\* C6. Confirmation gate: a POST has been sent only if the user answered yes
\* to the confirmation prompt, and once the user has answered no the run has
\* ended with no POST sent.
C6_ConfirmationGate ==
    /\ NumPosts > 0 => ok
    /\ (Asked /\ pc # "confirm" /\ ~ok) => Ended(0) /\ NumPosts = 0

\* The user was asked and answered no.
C6_Witness == Asked /\ pc = "exit" /\ ~ok /\ NumPosts = 0

\* C7. Workspace id and API token are distinct fields: when the workspace id
\* is asked for at the prompt, the report query carries the typed value as
\* its workspace identifier and authenticates with the token the user gave.
C7_DistinctFields ==
    \A r \in 1..Len(requests) :
        (requests[r].kind = "report" /\ program.workspace = Undefined) =>
            /\ requests[r].workspace_id = WorkspaceTyped
            /\ requests[r].auth[1] = IF program.apiToken # Undefined
                                     THEN program.apiToken
                                     ELSE ApiTokenTyped

\* C8. Transport errors are fatal and reported on all three calls: once a
\* callback got an error and no response, the error has been reported and
\* the run has ended with exit code 1 through process.exit, nothing owed.
C8_TransportErrorsReported ==
    ( \/ reportBody # Undefined /\ reportBody.res = Undefined
      \/ issuesBody # Undefined /\ issuesBody.res = Undefined
      \/ \E k \in 1..Len(responses) : responses[k].res = Undefined )
        => /\ Ended(1)
           /\ pending = {}
           /\ \E e \in 1..Len(stderr) : stderr[e] = TransportError

\* The sum of dur over the entries of data at the indexes in chosen.
RECURSIVE SumOfDur(_, _)
SumOfDur(data, chosen) ==
    IF chosen = {} THEN 0
    ELSE LET i == CHOOSE x \in chosen : TRUE
         IN  data[i].dur + SumOfDur(data, chosen \ {i})

C10_PageLimit ==
    ReportOk =>
        LET body == reportBody.res.body
        IN  /\ body.total_count > body.per_page =>
                /\ Ended(1)
                /\ allItems = <<>>
                /\ totalDuration = 0
                /\ summary = <<>>
                /\ NoIssueTrackerRequest
            /\ body.total_count <= body.per_page =>
                IF Len(body.data) = 0
                THEN Ended(0)
                ELSE /\ Len(summary) >= 1
                     /\ totalDuration = SumOfDur(body.data, 1..Len(body.data))

\* A report of more entries than its page ended the run.
C10_Witness ==
    /\ ReportOk
    /\ reportBody.res.body.total_count > reportBody.res.body.per_page
    /\ Ended(1)

\* C11. Empty report: once a report without entries has arrived, the run has
\* ended with exit code 0, nothing was sent to the issue tracker and the
\* issue-tracker credentials were neither read nor asked for.
C11_EmptyReport ==
    (ReportMerged /\ Len(reportBody.res.body.data) = 0) =>
        /\ Ended(0)
        /\ NoIssueTrackerRequest
        /\ NumPosts = 0
        /\ username = Undefined
        /\ password = Undefined
        /\ stderr = <<>>

\* A report with total_count = 0 ended the run with 0.
C11_Witness ==
    /\ ReportMerged
    /\ reportBody.res.body.total_count = 0
    /\ Len(reportBody.res.body.data) = 0
    /\ Ended(0)

\* The summary was printed: every item of the queue went through the loop of
\* local classification and none has been posted yet.
Classified == Len(summary) >= 1 /\ NumPosts = 0

\* C12. Resolved id is set iff exactly one candidate id: after local
\* classification an item carries a resolved id exactly when it has one
\* candidate id, and the ids of the issue query are those of such items only.
C12_ResolvedIffOne ==
    Classified =>
        /\ \A i \in 1..Len(allItems) :
            (allItems[i].jiraId # Undefined) <=> (Len(allItems[i].jiraIds) = 1)
        /\ \A u \in 1..Len(uniqueJiraIds) :
            \E i \in 1..Len(allItems) :
                /\ Len(allItems[i].jiraIds) = 1
                /\ allItems[i].jiraIds[1] = uniqueJiraIds[u]

\* C13. Whole-second time spent: the timeSpentSeconds of every POST is a
\* whole number of seconds, whatever the total duration in milliseconds.
C13_WholeSeconds ==
    \A j \in 1..NumPosts : Posts[j].body.timeSpentSeconds.thousandths = 0

\* The number of summary lines whose item has other than one candidate id.
NotReady == Cardinality({i \in 1..Len(summary) : Len(summary[i].jira) # 1})

\* C14. Local classification is total and depends on the number of candidate
\* ids alone: every summarised item has exactly one of the three statuses,
\* Ready with one id, No Jira Id with none, Multiple Jira Ids with more; and
\* the number of issues reported is the number of items that are not Ready.
C14_Classification ==
    Len(summary) >= 1 =>
        /\ \A i \in 1..Len(summary) :
            /\ summary[i].status \in {"Ready", "No Jira Id", "Multiple Jira Ids"}
            /\ summary[i].status = "Ready" <=> Len(summary[i].jira) = 1
            /\ summary[i].status = "No Jira Id" <=> Len(summary[i].jira) = 0
            /\ summary[i].status = "Multiple Jira Ids" <=> Len(summary[i].jira) >= 2
        /\ NotReady > 0 =>
            /\ Ended(1)
            /\ stderr = <<<<"issues", NotReady>>>>
        /\ NotReady = 0 =>
            \A e \in 1..Len(stderr) :
                Len(stderr[e]) = 2 => stderr[e][1] # "issues"

\* An item without id and an item with two ids: two issues reported.
C14_Witness ==
    /\ Len(summary) = 2
    /\ summary[1].status = "No Jira Id" \/ summary[2].status = "No Jira Id"
    /\ summary[1].status = "Multiple Jira Ids"
        \/ summary[2].status = "Multiple Jira Ids"
    /\ stderr = <<<<"issues", 2>>>>

\* C15. Validation runs to completion before aborting: a run ended by local
\* classification has printed the summary line of every work item, and a run
\* ended by the cross-check has printed the outcome of every distinct
\* resolved id, each outcome being the one the search response gives.
C15_ValidationComplete ==
    /\ (\E i \in 1..Len(Aggregated) : Len(Aggregated[i].jiraIds) # 1) =>
        /\ Ended(1)
        /\ Len(summary) = Len(Aggregated)
        /\ \A i \in 1..Len(summary) :
            /\ summary[i].n = i
            /\ summary[i].description = Aggregated[i].description
            /\ summary[i].jira = Aggregated[i].jiraIds
            /\ summary[i].count = Aggregated[i].occurrences
    /\ SearchOk =>
        /\ Len(verified) = Len(uniqueJiraIds)
        /\ \A i \in 1..Len(verified) :
            /\ verified[i].key = uniqueJiraIds[i]
            /\ verified[i].outcome = "Found" <=> FoundSubtask(uniqueJiraIds[i])
            /\ verified[i].outcome = "Doesn't exist" <=> Absent(uniqueJiraIds[i])
            /\ verified[i].outcome = "Not a subtask" <=> NotSubtask(uniqueJiraIds[i])

\* Two ids, the first does not exist: both outcomes were printed before the
\* run ended with 1.
C15_Witness ==
    /\ SearchOk
    /\ Ended(1)
    /\ Len(verified) = 2
    /\ verified[1].outcome = "Doesn't exist"
    /\ verified[2].outcome \in {"Found", "Not a subtask"}

\* The ids named in the query of the r-th request, read back from its text.
QueryIds(r) == findJiraIds(requests[r].jql)

\* C16. Distinct ids in the issue query: the query of the issue search names
\* the resolved id of every work item, each once, and no other id.
C16_DistinctQueryIds ==
    \A r \in 1..Len(requests) :
        requests[r].kind = "search" =>
            LET ids == QueryIds(r)
            IN  /\ \A i \in 1..Len(Aggregated) :
                    /\ Len(Aggregated[i].jiraIds) = 1
                    /\ \E u \in 1..Len(ids) : ids[u] = Aggregated[i].jiraIds[1]
                /\ \A u, v \in 1..Len(ids) : ids[u] = ids[v] => u = v
                /\ \A u \in 1..Len(ids) :
                    \E i \in 1..Len(Aggregated) :
                        Aggregated[i].jiraIds[1] = ids[u]
                /\ requests[r].jql =
                    <<"k","e","y"," ","i","n"," ","(","\"">>
                        \o Join(ids, <<"\"", ",", "\"">>) \o <<"\"", ")">>

\* Two work items with the same resolved id: the query names it once.
C16_Witness ==
    /\ Len(Aggregated) = 2
    /\ Aggregated[1].jiraIds = Aggregated[2].jiraIds
    /\ \E r \in 1..Len(requests) :
        requests[r].kind = "search" /\ Len(QueryIds(r)) = 1

\* C18. Phase ordering: the requests leave in the order report, issue
\* search, work-log POSTs, never two at a time; the issue-tracker credentials
\* are read and the search is sent only after the report was merged and every
\* item was found Ready; the confirmation is asked only after the search
\* response was checked, and a POST is sent only after that and a yes.
C18_PhaseOrdering ==
    /\ Cardinality(pending) <= 1
    /\ \A r \in 1..Len(requests) :
        requests[r].kind = CASE r = 1 -> "report"
                             [] r = 2 -> "search"
                             [] OTHER -> "worklog"
    /\ pc \in {"main", "promptApiToken", "promptWorkspace"} =>
        requests = <<>> /\ reportBody = Undefined
    /\ (pc \in {"promptUsername", "promptPassword"}
        \/ username # Undefined \/ password # Undefined
        \/ Len(requests) >= 2) =>
        /\ ReportMerged
        /\ 1 \notin pending
        /\ Len(Aggregated) >= 1
        /\ Len(summary) = Len(Aggregated)
        /\ \A i \in 1..Len(Aggregated) : Len(Aggregated[i].jiraIds) = 1
    /\ pc \in {"promptUsername", "promptPassword"} => Len(requests) = 1
    /\ (pc = "confirm" \/ Len(requests) >= 3) =>
        /\ Asked
        /\ 2 \notin pending
        /\ Len(verified) = Len(uniqueJiraIds)
    /\ pc = "confirm" => Len(requests) = 2 /\ ~ok
    /\ Len(requests) >= 3 => ok

\* The first POST is in flight, after the report and the search.
C18_Witness == Len(requests) = 3 /\ pending = {3} /\ pc = "request"

\* C20. Meaning of exit code 0: a run that ended with 0 reported no failure
\* and either sent no POST, the report being empty or the user having
\* declined, or sent a POST for each of the N items and got 201 for each.
C20_ExitZero ==
    exitCode = 0 =>
        /\ pc = "exit"
        /\ ReportMerged
        /\ stderr = <<>>
        /\ pending = {}
        /\ \/ /\ NumPosts = 0
              /\ Len(reportBody.res.body.data) = 0
           \/ /\ NumPosts = 0
              /\ Asked
              /\ ~ok
           \/ /\ ok
              /\ Asked
              /\ NumPosts = Len(Aggregated)
              /\ Len(responses) = NumPosts
              /\ \A k \in 1..Len(responses) : Answered201(k)
              /\ allItems = <<>>

\* A single item was posted, answered with 201, and the run ended with 0.
C20_Witness ==
    /\ exitCode = 0
    /\ Len(Aggregated) = 1
    /\ NumPosts = 1
    /\ Answered201(1)

\* id has the shape of an identifier: a letter, one or more letters, digits
\* or underscores, a hyphen, a digit from 1 to 9, then digits only.
WellFormedId(id) ==
    \E h \in 3..(Len(id) - 1) :
        /\ id[1] \in Letter
        /\ \A i \in 2..(h - 1) : id[i] \in WordChar
        /\ id[h] = "-"
        /\ id[h + 1] \in NonZeroDigit
        /\ \A i \in (h + 2)..Len(id) : id[i] \in Digit

\* The strings of found occur in s from index from on, one after the other
\* without overlap, in the order of found.
RECURSIVE InOrder(_, _, _)
InOrder(s, from, found) ==
    IF found = <<>> THEN TRUE
    ELSE \E at \in from..(Len(s) - Len(Head(found)) + 1) :
            /\ SubSeq(s, at, at + Len(Head(found)) - 1) = Head(found)
            /\ InOrder(s, at + Len(Head(found)), Tail(found))

\* Some part of s has the shape of an identifier.
HoldsAnId(s) ==
    \E a \in 1..Len(s) : \E b \in a..Len(s) : WellFormedId(SubSeq(s, a, b))

\* C17. Identifier extraction: every id findJiraIds returns has the shape
\* letter, word characters, hyphen, digit 1-9, digits; the ids are parts of
\* the text in left-to-right order; a text that holds no id gives the empty
\* sequence (and only such a text); "AB-0" at the end of a text adds no
\* match and "AB-10" adds "AB-10".
C17_Extraction ==
    pc = "extracted" =>
        /\ \A k \in 1..Len(matches) : WellFormedId(matches[k])
        /\ InOrder(text, 1, matches)
        /\ matches = <<>> <=> ~HoldsAnId(text)
        /\ text = <<"A","B","-","0">> => matches = <<>>
        /\ text = <<"A","B","-","1","0">> => matches = << <<"A","B","-","1","0">> >>

\* A text with two ids: both returned, the left one first.
C17_Witness ==
    /\ pc = "extracted"
    /\ Len(matches) = 2
    /\ matches[2] = <<"A","B","-","1","0">>
    /\ matches[1] # matches[2]

\* C19. Submitter termination: with every prompt and every request answered,
\* every run ends with exit code 0 or 1; once submission has started the
\* POSTs sent and the items queued add up to the N aggregated items, a step
\* that sends a POST takes exactly one item off the queue, and no step is
\* taken after the run has ended.
C19_Termination ==
    /\ <>(exitCode \in {0, 1})
    /\ [](ok => /\ NumPosts + Len(allItems) = Len(Aggregated)
                /\ NumPosts <= Len(Aggregated))
    /\ [][/\ Running
          /\ NumPosts' \in {NumPosts, NumPosts + 1}
          /\ NumPosts' = NumPosts + 1 => Len(allItems') = Len(allItems) - 1
          /\ (NumPosts' = NumPosts /\ ok) => allItems' = allItems]_vars

\* Two POSTs emptied a queue of two items and the run ended.
C19_Witness ==
    /\ ~Running
    /\ ok
    /\ Len(Aggregated) = 2
    /\ NumPosts = 2
    /\ allItems = <<>>

====
